---- MODULE Spec2Model ----
(***************************************************************************)
(* ACO_MultiAgent (src/algorithms/ACO_runner.py): multi-agent path         *)
(* planning by ant colony optimisation on a grid graph.                    *)
(*                                                                         *)
(* Numbers.  Trail values are exact rationals <<numerator, denominator>>.  *)
(* Move costs, scores, Q, w_conf and the two 1e-9 guards of the source     *)
(* have the same dimension and are counted in one common unit, the guard   *)
(* itself (EPS).  The deposit Q / (score + 1e-9) and the selection         *)
(* probabilities are homogeneous of degree 0 in these quantities, so the   *)
(* unit only fixes the scale of the configurations explored.               *)
(* Nodes are <<row, col>>, 0-based as in the source.                       *)
(***************************************************************************)
EXTENDS Integers, Sequences, FiniteSets, TLC

(* ------------------------------ bounds -------------------------------- *)
\* longest route (number of recorded entries) explored for one agent
MaxSteps == 3
\* largest num_ants explored
MaxAnts == 2
\* largest iterations explored
MaxIter == 2

(* --------------------------- exact rationals -------------------------- *)
RECURSIVE GCD(_, _)
GCD(a, b) == IF b = 0 THEN a ELSE GCD(b, a % b)

Abs(x) == IF x < 0 THEN -x ELSE x

Norm(n, d) ==
    LET g == GCD(Abs(n), Abs(d))
        s == IF d < 0 THEN -1 ELSE 1
    IN  <<(s * n) \div g, (s * d) \div g>>

LCM(a, b) == (a \div GCD(a, b)) * b

\* over the least common denominator, and cancelling before multiplying
RAdd(x, y) ==
    LET d == LCM(x[2], y[2])
    IN  Norm(x[1] * (d \div x[2]) + y[1] * (d \div y[2]), d)
RNeg(x) == <<-x[1], x[2]>>
RSub(x, y) == RAdd(x, RNeg(y))
RMul(x, y) ==
    LET a == Norm(x[1], y[2])
        b == Norm(y[1], x[2])
    IN  Norm(a[1] * b[1], a[2] * b[2])
RInv(x) == Norm(x[2], x[1])
RDiv(x, y) == RMul(x, RInv(y))
RLt(x, y) == RSub(x, y)[1] < 0
RLe(x, y) == RSub(x, y)[1] <= 0
RInt(n) == <<n, 1>>
ZERO == RInt(0)
ONE == RInt(1)

RECURSIVE RPow(_, _)
RPow(x, k) == IF k = 0 THEN ONE ELSE RMul(x, RPow(x, k - 1))

RECURSIVE RSum(_, _)
\* f[1] + ... + f[k]
RSum(f, k) == IF k = 0 THEN ZERO ELSE RAdd(RSum(f, k - 1), f[k])

Range(s) == {s[k] : k \in 1..Len(s)}

(* ----------------------------- constants ------------------------------ *)
\* the guard 1e-9 added to a distance (line 170) and to a score (line 252)
EPS == 1
\* ga_core.MOVE_ORTH and ga_core.MOVE_DIAG: diagonal > orthogonal
MOVE_ORTH == 1
MOVE_DIAG == 2
\* initial trail 0.01
TAU0 == <<1, 100>>
\* temporal penalty 0.0001
PENAL == <<1, 10000>>
\* float("inf")
INF == -1
\* None
NIL == <<>>

(* ------------------------------- state -------------------------------- *)
VARIABLES
    \* self.* set by __init__ and never assigned again
    env, G, starts, pickups, drops, alpha, beta, rho, Q,
    num_ants, iterations, MIN_SEP, w_dist, w_conf, num_agents,
    \* self.pheromone
    pheromone,
    \* run(): position, loop counters and locals
    pc, it, ant, candidatos, scored, score_best, rutas_best,
    best_routes, best_score,
    \* build_solution_multi(): locals
    rutas, ocupacion, i,
    \* build_route_single(): locals
    ruta, t, curr,
    \* history: number of entries the first leg recorded, for the route
    \* under construction and for every route of rutas
    leg1, legs,
    \* history: the least score among all the candidates run() has scored so
    \* far, with the candidates that have it (NIL before the first)
    hist,
    \* history: <<mode, draws, k, log, first>>.  In mode "A" draws records
    \* every choice of choose_next as <<weights, node>> and log every
    \* candidate as <<score, rutas>>; in mode "B" a second instance repeats
    \* the draws (k of them so far), log is its own and first is what the
    \* first instance ended with; in mode "off" nothing is recorded
    trace,
    \* the apps of src/app: which one runs, its session (agent, stage,
    \* points, routes; pending in streamlit_app.py) and its last response
    app, agent, stage, points, routes, pending, response

cfgVars == <<env, G, starts, pickups, drops, alpha, beta, rho, Q,
             num_ants, iterations, MIN_SEP, w_dist, w_conf, num_agents>>
runVars == <<it, ant, candidatos, scored, score_best, rutas_best,
             best_routes, best_score, hist>>
solVars == <<rutas, ocupacion, i, legs>>
routeVars == <<ruta, t, curr, leg1>>
planVars == <<cfgVars, pheromone, pc, runVars, solVars, routeVars, trace>>
uiVars == <<app, agent, stage, points, routes, pending, response>>
vars == <<planVars, uiVars>>

(* ---------------------- environment and graph ------------------------- *)
\* free = 0, wall = 255
ENV_CORNER == << <<0, 0>>, <<0, 255>> >>
ENV_SPLIT == << <<0, 255, 0>> >>
ENV_APART == << <<0, 0, 255, 0>> >>
Envs == {ENV_CORNER, ENV_SPLIT, ENV_APART}

Height(e) == Len(e)
Width(e) == Len(e[1])
Cells(e) == {<<r, c>> : r \in 0..(Height(e) - 1), c \in 0..(Width(e) - 1)}
IsFree(e, u) == u \in Cells(e) /\ e[u[1] + 1][u[2] + 1] = 0
FreeCells(e) == {u \in Cells(e) : IsFree(e, u)}

\* the 8 moves: up, down, left, right and the 4 diagonals
Offsets == << <<-1, 0>>, <<1, 0>>, <<0, -1>>, <<0, 1>>,
              <<-1, -1>>, <<-1, 1>>, <<1, -1>>, <<1, 1>> >>

RECURSIVE NeighbourSeq(_, _, _)
\* the free in-bounds neighbours of u among Offsets[k..8], in that order
NeighbourSeq(e, u, k) ==
    IF k > Len(Offsets) THEN <<>>
    ELSE LET v == <<u[1] + Offsets[k][1], u[2] + Offsets[k][2]>>
             rest == NeighbourSeq(e, u, k + 1)
         IN  IF IsFree(e, v) THEN <<v>> \o rest ELSE rest

create_graph(e) == [u \in FreeCells(e) |-> NeighbourSeq(e, u, 1)]

\* the directed edges (u, v) with v in G[u]
Edges(g) == {e \in (DOMAIN g) \X (DOMAIN g) : e[2] \in Range(g[e[1]])}

(* --------------------------- pure functions --------------------------- *)
dist(a, b) ==
    LET dy == Abs(a[1] - b[1])
        dx == Abs(a[2] - b[2])
    IN  IF dy + dx = 2 THEN MOVE_DIAG ELSE MOVE_ORTH

\* self.pheromone[k]: a defaultdict, a missing key reads as 0.01 ...
PheromoneGet(ph, k) == IF k \in DOMAIN ph THEN ph[k] ELSE TAU0

\* a read that stores the default over the value of the key
PheromoneTouch_reset(ph, keys) ==
    [k \in (DOMAIN ph) \cup keys |-> IF k \in keys THEN TAU0 ELSE ph[k]]

\* ... and the read inserts it
PheromoneTouch(ph, keys) ==
    [k \in (DOMAIN ph) \cup keys |-> PheromoneGet(ph, k)]

\* an occupied neighbour given no weight at all
Desirability_blocked(ph, u, v, timestep, ocup) ==
    LET penal == IF <<timestep, v>> \in ocup THEN ZERO ELSE ONE
        tau == PheromoneGet(ph, <<u, v>>)
        eta == RDiv(ONE, RInt(dist(u, v) + EPS))
    IN  RMul(penal, RMul(RPow(tau, alpha), RPow(eta, beta)))

\* val of neighbour v in choose_next
Desirability(ph, u, v, timestep, ocup) ==
    LET penal == IF <<timestep, v>> \in ocup THEN PENAL ELSE ONE
        tau == PheromoneGet(ph, <<u, v>>)
        eta == RDiv(ONE, RInt(dist(u, v) + EPS))
    IN  RMul(penal, RMul(RPow(tau, alpha), RPow(eta, beta)))

\* choose_next drawing among all nodes of the graph instead of G[u]
choose_next_anyNode(ph, u, timestep, ocup) ==
    IF Len(G[u]) = 0 THEN {} ELSE DOMAIN G

\* the division by a zero total reached: raises for the vals summing to zero
choose_next_noFallback(ph, u, timestep, ocup) ==
    LET vecinos == G[u]
        n == Len(vecinos)
        vals == [k \in 1..n |->
                    Desirability(ph, u, vecinos[k], timestep, ocup)] \o <<>>
    IN  IF n = 0 \/ RSum(vals, n) = ZERO THEN {} ELSE Range(vecinos)

\* The nodes choose_next(u, timestep, ocupacion) can return, over every draw
\* r of random.random() in [0, 1) and every outcome of random.choice; the
\* empty set when it raises (random.choice of an empty list).
choose_next(ph, u, timestep, ocup) ==
    LET vecinos == G[u]
        n == Len(vecinos)
        vals == [k \in 1..n |->
                    Desirability(ph, u, vecinos[k], timestep, ocup)] \o <<>>
        total == RSum(vals, n)
        acc(k) == RDiv(RSum(vals, k), total)
        \* some r in [0, 1) has r > acc(j) for all j < k and r <= acc(k)
        FirstHit(k) ==
            /\ RLe(ZERO, acc(k))
            /\ \A j \in 1..(k - 1) : RLt(acc(j), acc(k)) /\ RLt(acc(j), ONE)
    IN  IF n = 0 THEN {}
        ELSE IF total = ZERO THEN Range(vecinos)
        ELSE {vecinos[k] : k \in {j \in 1..n : FirstHit(j)}}
             \* no neighbour selected (rounding of the sum): the last one
             \cup {vecinos[n]}

\* probs before the division: the val of every neighbour of u, in the
\* order of list(G[u])
Vals(ph, u, timestep, ocup) ==
    [k \in 1..Len(G[u]) |-> Desirability(ph, u, G[u][k], timestep, ocup)]
        \o <<>>

\* probs = [p / total for p in probs]; the float quotients can fall short
\* of the exact ones, here by the factor short
Probs(vals, short) ==
    LET total == RSum(vals, Len(vals))
    IN  [k \in 1..Len(vals) |-> RMul(short, RDiv(vals[k], total))] \o <<>>

RECURSIVE Accumulate_strict(_, _, _, _, _)
\* the loop returning on r < acc
Accumulate_strict(vecinos, probs, r, k, acc) ==
    IF k > Len(vecinos) THEN vecinos[Len(vecinos)]
    ELSE LET a == RAdd(acc, probs[k])
         IN  IF RLt(r, a) THEN vecinos[k]
             ELSE Accumulate_strict(vecinos, probs, r, k + 1, a)

RECURSIVE Accumulate(_, _, _, _, _)
\* for v, p in zip(vecinos, probs): acc += p; if r <= acc: return v, from
\* neighbour k on; return vecinos[-1] after the loop
Accumulate(vecinos, probs, r, k, acc) ==
    IF k > Len(vecinos) THEN vecinos[Len(vecinos)]
    ELSE LET a == RAdd(acc, probs[k])
         IN  IF RLe(r, a) THEN vecinos[k]
             ELSE Accumulate(vecinos, probs, r, k + 1, a)

\* choose_next(u, timestep, ocupacion) when the vals do not sum to zero, on
\* the draw r of random.random()
choose_next_draw(ph, u, timestep, ocup, r, short) ==
    Accumulate(G[u], Probs(Vals(ph, u, timestep, ocup), short), r, 1, ZERO)

\* draws of random.random() the selection is followed on
Draws == {ZERO, <<1, 4>>, <<1, 2>>, <<3, 4>>}

\* what the quotients keep of their exact value: all of it, or so little
\* that the draws above pass the sum of all of them
Shortfalls == {ONE, <<1, 2>>}

\* [n for _, n in ruta]
Nodos(r) == [k \in 1..Len(r) |-> r[k][2]]

\* the last node paired with the first as well
Pares_wrap(nodos) ==
    [k \in 1..Len(nodos) |-> <<nodos[k], nodos[(k % Len(nodos)) + 1]>>]

\* zip(nodos[:-1], nodos[1:])
Pares(nodos) ==
    IF Len(nodos) < 2 THEN <<>>
    ELSE [k \in 1..(Len(nodos) - 1) |-> <<nodos[k], nodos[k + 1]>>]

RECURSIVE Concat(_)
Concat(ss) == IF ss = <<>> THEN <<>> ELSE Head(ss) \o Concat(Tail(ss))

\* the consecutive node pairs of every route, in the order the loops of
\* score_solution and reinforce visit them
ParesDe(rs) == Concat([k \in 1..Len(rs) |-> Pares(Nodos(rs[k]))])

RECURSIVE SumDist(_)
SumDist(ps) == IF ps = <<>> THEN 0
               ELSE dist(Head(ps)[1], Head(ps)[2]) + SumDist(Tail(ps))

\* ga_core.detect_conflicts: the agent pairs a < b that occupy the same node
\* at the same step, an agent staying at its last node once its route ended
detect_conflicts(paths) ==
    LET maxlen == IF paths = <<>> THEN 0
                  ELSE CHOOSE m \in {Len(paths[k]) : k \in 1..Len(paths)} :
                           \A k \in 1..Len(paths) : Len(paths[k]) <= m
        pos(a, k) == paths[a][IF k <= Len(paths[a]) THEN k ELSE Len(paths[a])]
    IN  {p \in (1..Len(paths)) \X (1..Len(paths)) :
            /\ p[1] < p[2]
            /\ paths[p[1]] # <<>> /\ paths[p[2]] # <<>>
            /\ \E k \in 1..maxlen : pos(p[1], k) = pos(p[2], k)}

\* score_solution with the penalty left out of the first value
score_solution_noPenalty(rs) ==
    LET total_dist == SumDist(ParesDe(rs))
        conflicts == detect_conflicts([k \in 1..Len(rs) |-> Nodos(rs[k])])
    IN  <<total_dist, total_dist, Cardinality(conflicts)>>

\* score_solution with the distance weighted by w_dist
score_solution_weighted(rs) ==
    LET total_dist == SumDist(ParesDe(rs))
        conflicts == detect_conflicts([k \in 1..Len(rs) |-> Nodos(rs[k])])
        penalty == w_conf * Cardinality(conflicts)
    IN  <<w_dist * total_dist + penalty, total_dist, Cardinality(conflicts)>>

\* score_solution(rutas): <<penalized score, total_dist, len(conflicts)>>
score_solution(rs) ==
    LET total_dist == SumDist(ParesDe(rs))
        conflicts == detect_conflicts([k \in 1..Len(rs) |-> Nodos(rs[k])])
        penalty == w_conf * Cardinality(conflicts)
    IN  <<total_dist + penalty, total_dist, Cardinality(conflicts)>>

\* evaporation subtracting rho
Evaporated_subtract(x) == RSub(x, rho)

\* evaporation keeping the share rho instead of 1 - rho
Evaporated_byRho(x) == RMul(x, rho)

\* one trail value after evaporation
Evaporated(x) == RMul(x, RSub(ONE, rho))

evaporate(ph) == [k \in DOMAIN ph |-> Evaporated(ph[k])]

\* dep in reinforce
Deposit(score) == RDiv(RInt(Q), RInt(score + EPS))

RECURSIVE DepositOn_perEdge(_, _, _)
\* one deposit for each distinct pair of ps
DepositOn_perEdge(ph, ps, dep) ==
    IF ps = <<>> THEN ph
    ELSE LET k == Head(ps)
             touched == PheromoneTouch(ph, {k})
         IN  IF k \in Range(Tail(ps))
             THEN DepositOn_perEdge(touched, Tail(ps), dep)
             ELSE DepositOn_perEdge([touched EXCEPT ![k] = RAdd(@, dep)],
                                    Tail(ps), dep)

RECURSIVE DepositOn(_, _, _)
\* self.pheromone[(a, b)] += dep for each pair of ps in turn
DepositOn(ph, ps, dep) ==
    IF ps = <<>> THEN ph
    ELSE LET k == Head(ps)
             touched == PheromoneTouch(ph, {k})
         IN  DepositOn([touched EXCEPT ![k] = RAdd(@, dep)], Tail(ps), dep)

reinforce(ph, rs, score) == DepositOn(ph, ParesDe(rs), Deposit(score))

\* the candidate built last taken as the iteration best
Primero_last(cs) == cs[Len(cs)]

\* candidatos.sort(key=lambda x: x[0]); candidatos[0]: the sort is stable,
\* the first candidate of least score
Primero(cs) ==
    cs[CHOOSE k \in 1..Len(cs) :
          /\ \A j \in 1..Len(cs) : cs[k][1] <= cs[j][1]
          /\ \A j \in 1..(k - 1) : cs[j][1] > cs[k][1]]

\* the incumbent replaced on a tie too
Improves_orEqual(s, best) == best = INF \/ s <= best

\* the incumbent replaced by every iteration best
Improves_always(s, best) == TRUE

\* score_best < best_score, best_score being float("inf") at first
Improves(s, best) == best = INF \/ s < best

(* ------------------- the apps of src/app: handlers -------------------- *)
N_AGENTS == 4
STAGES == <<"start", "pickup", "drop">>

\* the map the apps load: free = 0, wall = 255
UI_ENV == << <<0, 255, 255>> >>

\* the points a user can pick: every pixel of the map
Picks == Cells(UI_ENV)

\* how far from the picked pixel a free pixel is looked for
SNAP_RADIUS == 1

\* ga_core.nearest_free_black: the free pixel nearest to (y, x), None (NIL)
\* when none is found
nearest_free_black(e, y, x) ==
    LET near == {c \in FreeCells(e) : /\ Abs(c[1] - y) <= SNAP_RADIUS
                                      /\ Abs(c[2] - x) <= SNAP_RADIUS}
        d(c) == Abs(c[1] - y) + Abs(c[2] - x)
    IN  IF near = {} THEN NIL
        ELSE CHOOSE c \in near :
                 \A o \in near \ {c} :
                     \/ d(c) < d(o)
                     \/ d(c) = d(o) /\ (c[1] < o[1] \/ (c[1] = o[1] /\ c[2] < o[2]))

\* the agent index advanced past the last agent
Advance_noCap(ag, stg) ==
    IF stg < 2 THEN <<ag, stg + 1>> ELSE <<ag + 1, 0>>

\* "Advance to next stage/agent": <<agent, stage>> after a stored point
Advance(ag, stg) ==
    IF stg < 2 THEN <<ag, stg + 1>>
    ELSE <<IF ag < N_AGENTS - 1 THEN ag + 1 ELSE ag, 0>>

\* session['points'][str(agent)][stage] = [y, x]
Stored(pts, ag, stg, pos) ==
    [pts EXCEPT ![ag] = (STAGES[stg + 1] :> pos) @@ @]

\* a point stored and the selection advanced without looking at pos
select_point_unchecked(ag, stg, pts, pos) ==
    [agent |-> Advance(ag, stg)[1], stage |-> Advance(ag, stg)[2],
     points |-> Stored(pts, ag, stg, pos),
     status |-> IF pos = NIL THEN "400" ELSE "200"]

\* antigravity_app.select_point after pos = nearest_free_black(...): the
\* session it leaves and the status of its response
select_point(ag, stg, pts, pos) ==
    IF pos = NIL
    THEN [agent |-> ag, stage |-> stg, points |-> pts, status |-> "400"]
    ELSE [agent |-> Advance(ag, stg)[1], stage |-> Advance(ag, stg)[2],
          points |-> Stored(pts, ag, stg, pos), status |-> "200"]

\* streamlit_app "Confirmar punto" with the pending point pend: the session
\* it leaves and the message it shows
confirmar_punto(ag, stg, pts, pend) ==
    IF pend = NIL
    THEN [agent |-> ag, stage |-> stg, points |-> pts, pending |-> pend,
          status |-> "warning"]
    ELSE LET pos == nearest_free_black(UI_ENV, pend[1], pend[2])
         IN  IF pos = NIL
             THEN [agent |-> ag, stage |-> stg, points |-> pts,
                   pending |-> pend, status |-> "error"]
             ELSE [agent |-> Advance(ag, stg)[1],
                   stage |-> Advance(ag, stg)[2],
                   points |-> Stored(pts, ag, stg, pos),
                   pending |-> NIL, status |-> "rerun"]

\* some agent with a point taken for all agents with three points
points_ok_some(pts) ==
    \E a \in 0..(N_AGENTS - 1) : Cardinality(DOMAIN pts[a]) >= 1

\* all(len(session['points'][str(a)]) == 3 for a in range(N_AGENTS))
points_ok(pts) ==
    \A a \in 0..(N_AGENTS - 1) : Cardinality(DOMAIN pts[a]) = 3

\* ga_runner_multi.run_ga_multi_streamlit: what a call can end with, its
\* result['paths'] or an exception
PATHS == <<"paths">>
run_ga_multi_streamlit == {"paths", "raise"}

\* init_session: the session every handler starts from when it is new
InitSession ==
    /\ agent = 0
    /\ stage = 0
    /\ points = [a \in 0..(N_AGENTS - 1) |-> <<>>]
    /\ routes = NIL
    /\ pending = NIL
    /\ response = NIL

NoSession == app = "none" /\ InitSession

(* ------------------- two instances, the same draws -------------------- *)
\* nothing is recorded
TraceOff == <<"off", <<>>, 0, <<>>, NIL>>

\* the first of two instances starts
TraceFirst == <<"A", <<>>, 0, <<>>, NIL>>

\* the same sequence of random draws: the second instance chooses what the
\* first one chose at the same draw
Replays(tr, nxt) ==
    tr[1] = "B" => tr[3] < Len(tr[2]) /\ tr[2][tr[3] + 1][2] = nxt

\* one draw of choose_next, among the weights vals, gave nxt
Drawn(tr, vals, nxt) ==
    IF tr[1] = "A" THEN [tr EXCEPT ![2] = Append(@, <<vals, nxt>>)]
    ELSE IF tr[1] = "B" THEN [tr EXCEPT ![3] = @ + 1]
    ELSE tr

\* one candidate was scored
Logged(tr, cand) ==
    IF tr[1] = "off" THEN tr ELSE [tr EXCEPT ![4] = Append(@, cand)]

(* ------------------------------ __init__ ------------------------------ *)
\* MIN_SEP=6.0, w_dist=1.0
DEFAULT_MIN_SEP == 6
DEFAULT_W_DIST == 1

\* the values two instances are given for MIN_SEP and for w_dist
Seps == {DEFAULT_MIN_SEP, 3}
Weights == {DEFAULT_W_DIST, 2}

\* Configurations are taken from the domain the parameters are documented
\* for: rho in (0, 1), Q > 0, w_conf > 0, num_ants >= 1, iterations >= 1.
\* the agents planned for: sequences of <<start, pickup, drop>> on free cells
Scenarios(e) ==
    IF e = ENV_CORNER
    THEN LET a == <<0, 0>>
             b == <<0, 1>>
             c == <<1, 0>>
         IN  { << <<a, b, c>> >>,
               << <<a, a, b>> >>,
               << <<b, c, c>> >>,
               << <<c, c, c>> >>,
               << <<a, b, c>>, <<c, b, a>> >>,
               << <<a, a, b>>, <<c, b, b>> >> }
    ELSE IF e = ENV_SPLIT
    THEN LET a == <<0, 0>>
             c == <<0, 2>>
         IN  { << <<a, a, a>> >>,
               << <<a, c, c>> >>,
               << <<c, c, c>>, <<a, a, c>> >> }
    ELSE LET a == <<0, 0>>
             b == <<0, 1>>
             d == <<0, 3>>
         IN  { << <<a, b, a>> >>,
               << <<a, d, d>> >> }

\* <<rho, Q, num_ants, iterations>> in the documented domain
Configs ==
    {<<r, 2, n, m>> : r \in {<<1, 3>>, <<1, 2>>}, n \in 1..MaxAnts,
                      m \in 1..MaxIter}

\* <<rho, Q, num_ants, iterations>> with one value not positive
BadConfigs ==
    { <<ZERO, 2, 1, 1>>,
      << <<-1, 2>>, 2, 1, 1>>,
      << <<1, 2>>, 0, 1, 1>>,
      << <<1, 2>>, -2, 1, 1>>,
      << <<1, 2>>, 2, 0, 1>>,
      << <<1, 2>>, 2, 1, 0>> }

\* <<rho, Q, num_ants, iterations>> with rho = 1: the evaporation leaves
\* 0.0 on every edge, and the edges not reinforced keep it
ZeroConfigs == { <<ONE, 2, 1, 2>>, <<ONE, 2, 2, 2>> }

\* where run() stands at the head of iteration k: for it in range(1,
\* iterations + 1), for _ in range(num_ants), else the sort
LoopHead(k, ants, iters) ==
    IF k > iters THEN "done" ELSE IF ants >= 1 THEN "ant" ELSE "sort"

InitRun(cfgs) ==
    /\ env \in Envs
    /\ G = create_graph(env)
    /\ \E sc \in Scenarios(env) :
          /\ starts = [k \in 1..Len(sc) |-> sc[k][1]]
          /\ pickups = [k \in 1..Len(sc) |-> sc[k][2]]
          /\ drops = [k \in 1..Len(sc) |-> sc[k][3]]
          /\ num_agents = Len(sc)
    /\ alpha = 1
    /\ beta = 2
    /\ \E c \in cfgs :
          /\ rho = c[1]
          /\ Q = c[2]
          /\ num_ants = c[3]
          /\ iterations = c[4]
          /\ pc = LoopHead(1, c[3], c[4])
    /\ MIN_SEP = DEFAULT_MIN_SEP
    /\ w_dist = DEFAULT_W_DIST
    /\ w_conf = 10
    /\ pheromone = [k \in Edges(G) |-> TAU0]
    /\ it = 1
    /\ ant = 0
    /\ candidatos = <<>>
    /\ scored = NIL
    /\ score_best = INF
    /\ rutas_best = NIL
    /\ best_routes = NIL
    /\ best_score = INF
    /\ rutas = <<>>
    /\ ocupacion = {}
    /\ i = 0
    /\ legs = <<>>
    /\ ruta = <<>>
    /\ t = 0
    /\ curr = NIL
    /\ leg1 = 0
    /\ hist = NIL

\* the planner alone: no app runs
InitWith(cfgs) == InitRun(cfgs) /\ NoSession /\ trace = TraceOff

Init == InitWith(Configs)

(* ------------------------- build_route_single ------------------------- *)
\* the increment of t left out
NextT_stay(x) == x

\* t += 1
NextT(x) == x + 1

\* the entry appended to ruta and marked in ocupacion
Entry(x, nxt) == <<x, nxt>>

\* the entry left out of the ledger
Marked_not(ocup, e) == ocup

\* ocupacion[(t, nxt)] = True
Marked(ocup, e) == ocup \cup {e}

\* one pass of a while loop: choose, record, mark, advance
Step(target) ==
    /\ curr # target
    /\ Len(ruta) < MaxSteps
    /\ \E nxt \in choose_next(pheromone, curr, t, ocupacion) :
          /\ Replays(trace, nxt)
          /\ ruta' = Append(ruta, Entry(t, nxt))
          /\ ocupacion' = Marked(ocupacion, Entry(t, nxt))
          /\ curr' = nxt
          /\ trace' = Drawn(trace, Vals(pheromone, curr, t, ocupacion), nxt)
    /\ t' = NextT(t)
    /\ pheromone' = PheromoneTouch(pheromone, {<<curr, v>> : v \in Range(G[curr])})

StepLeg1 ==
    /\ pc = "leg1"
    /\ Step(pickups[i + 1])
    /\ leg1' = leg1 + 1
    /\ UNCHANGED <<uiVars, cfgVars, pc, runVars, rutas, i, legs>>

\* the first loop ends: curr = mid
EndLeg1 ==
    /\ pc = "leg1"
    /\ curr = pickups[i + 1]
    /\ curr' = pickups[i + 1]
    /\ pc' = "leg2"
    /\ UNCHANGED <<uiVars, trace, cfgVars, pheromone, runVars, solVars, ruta, t, leg1>>

StepLeg2 ==
    /\ pc = "leg2"
    /\ Step(drops[i + 1])
    /\ UNCHANGED <<uiVars, cfgVars, pc, runVars, rutas, i, legs, leg1>>

\* random.choice of an empty list raises; nothing catches it
Raise ==
    /\ \/ pc = "leg1" /\ curr # pickups[i + 1]
       \/ pc = "leg2" /\ curr # drops[i + 1]
    /\ choose_next(pheromone, curr, t, ocupacion) = {}
    /\ pc' = "error"
    /\ UNCHANGED <<uiVars, trace, cfgVars, pheromone, runVars, solVars, routeVars>>

(* ------------------------ build_solution_multi ------------------------ *)
\* the ledger of the call before kept
NewLedger_kept(prev) == prev

\* ocupacion = {}: the ledger a call starts with, whatever ledger prev the
\* call before ended with
NewLedger(prev) == {}

BuildSolution ==
    /\ pc = "ant"
    /\ rutas' = <<>>
    /\ ocupacion' = NewLedger(ocupacion)
    /\ i' = 0
    /\ legs' = <<>>
    /\ pc' = "agent"
    /\ UNCHANGED <<uiVars, trace, cfgVars, pheromone, runVars, routeVars>>

StartRoute ==
    /\ pc = "agent"
    /\ i < num_agents
    /\ ruta' = <<>>
    /\ t' = 0
    /\ curr' = starts[i + 1]
    /\ leg1' = 0
    /\ pc' = "leg1"
    /\ UNCHANGED <<uiVars, trace, cfgVars, pheromone, runVars, solVars>>

\* the second loop ends: return ruta; rutas.append(ruta_i)
ReturnRoute ==
    /\ pc = "leg2"
    /\ curr = drops[i + 1]
    /\ rutas' = Append(rutas, ruta)
    /\ legs' = Append(legs, leg1)
    /\ i' = i + 1
    /\ pc' = "agent"
    /\ ruta' = <<>> /\ t' = 0 /\ curr' = NIL /\ leg1' = 0
    /\ UNCHANGED <<uiVars, trace, cfgVars, pheromone, runVars, ocupacion>>

(* -------------------------------- run --------------------------------- *)
\* build_solution_multi returns; score_solution; candidatos.append
Score ==
    /\ pc = "agent"
    /\ i = num_agents
    /\ scored' = score_solution(rutas)
    /\ candidatos' = Append(candidatos, <<scored'[1], rutas>>)
    /\ ant' = ant + 1
    /\ pc' = IF ant + 1 < num_ants THEN "ant" ELSE "sort"
    /\ hist' = IF hist = NIL \/ scored'[1] < hist[1] THEN <<scored'[1], {rutas}>>
               ELSE IF scored'[1] = hist[1] THEN <<hist[1], hist[2] \cup {rutas}>>
               ELSE hist
    /\ trace' = Logged(trace, <<scored'[1], rutas>>)
    /\ UNCHANGED <<uiVars, cfgVars, pheromone, it, score_best, rutas_best,
                   best_routes, best_score, solVars, routeVars>>

SelectBest ==
    /\ pc = "sort"
    /\ candidatos # <<>>
    /\ score_best' = Primero(candidatos)[1]
    /\ rutas_best' = Primero(candidatos)[2]
    /\ pc' = "evap"
    /\ UNCHANGED <<uiVars, trace, cfgVars, pheromone, it, ant, candidatos, scored,
                   best_routes, best_score, hist, solVars, routeVars>>

Evaporate ==
    /\ pc = "evap"
    /\ pheromone' = evaporate(pheromone)
    /\ pc' = "reinf"
    /\ UNCHANGED <<uiVars, trace, cfgVars, runVars, solVars, routeVars>>

Reinforce ==
    /\ pc = "reinf"
    /\ pheromone' = reinforce(pheromone, rutas_best, score_best)
    /\ pc' = "incumb"
    /\ UNCHANGED <<uiVars, trace, cfgVars, runVars, solVars, routeVars>>

\* the incumbent test and the end of the iteration; the locals of the
\* iteration that ends are dropped
NextIteration ==
    /\ pc = "incumb"
    /\ IF Improves(score_best, best_score)
       THEN best_score' = score_best /\ best_routes' = rutas_best
       ELSE UNCHANGED <<best_score, best_routes>>
    /\ it' = it + 1
    /\ pc' = LoopHead(it + 1, num_ants, iterations)
    /\ ant' = 0
    /\ candidatos' = <<>>
    /\ scored' = NIL
    /\ rutas' = <<>> /\ ocupacion' = {} /\ i' = 0 /\ legs' = <<>>
    /\ UNCHANGED <<uiVars, trace, cfgVars, pheromone, score_best, rutas_best, hist,
                   routeVars>>

Next ==
    \/ BuildSolution
    \/ StartRoute
    \/ StepLeg1
    \/ EndLeg1
    \/ StepLeg2
    \/ ReturnRoute
    \/ Raise
    \/ Score
    \/ SelectBest
    \/ Evaporate
    \/ Reinforce
    \/ NextIteration

Spec == Init /\ [][Next]_vars

(* ------------------- run() on any configuration -------------------- *)
\* __init__ and run() check none of their parameters.
\* candidatos[0] of an empty list raises; nothing catches it
RaiseNoCandidate ==
    /\ pc = "sort"
    /\ candidatos = <<>>
    /\ pc' = "error"
    /\ UNCHANGED <<uiVars, trace, cfgVars, pheromone, runVars, solVars, routeVars>>

InitCfg == InitWith(BadConfigs)

NextCfg ==
    \/ Next
    \/ RaiseNoCandidate

SpecCfg == InitCfg /\ [][NextCfg]_vars

(* ------------------- run() with trails that vanish ------------------- *)
InitZero == InitWith(ZeroConfigs)

SpecZero == InitZero /\ [][Next]_vars

(* ------------- a second instance differing in w_dist, MIN_SEP --------- *)
\* <<rho, Q, num_ants, iterations>> of the two instances
TwinConfigs == { << <<1, 2>>, 2, 1, 2>>, << <<1, 2>>, 2, 2, 1>> }

\* the first instance is constructed; its draws and candidates are recorded
InitTwin == InitRun(TwinConfigs) /\ NoSession /\ trace = TraceFirst

\* run() of the first instance is over.  ACO_MultiAgent(...) is called
\* again with the same arguments but MIN_SEP and / or w_dist, and its run()
\* is given the same sequence of random draws
Rerun ==
    /\ trace[1] = "A"
    /\ pc \in {"done", "error"}
    /\ \E m \in Seps, w \in Weights :
          /\ <<m, w>> # <<MIN_SEP, w_dist>>
          /\ MIN_SEP' = m
          /\ w_dist' = w
    /\ pheromone' = [k \in Edges(G) |-> TAU0]
    /\ pc' = LoopHead(1, num_ants, iterations)
    /\ it' = 1
    /\ ant' = 0
    /\ candidatos' = <<>>
    /\ scored' = NIL
    /\ score_best' = INF
    /\ rutas_best' = NIL
    /\ best_routes' = NIL
    /\ best_score' = INF
    /\ rutas' = <<>>
    /\ ocupacion' = {}
    /\ i' = 0
    /\ legs' = <<>>
    /\ ruta' = <<>>
    /\ t' = 0
    /\ curr' = NIL
    /\ leg1' = 0
    /\ hist' = NIL
    /\ trace' = <<"B", trace[2], 0, <<>>,
                  <<trace[4], pheromone, best_routes, best_score, pc>>>>
    /\ UNCHANGED <<uiVars, env, G, starts, pickups, drops, alpha, beta, rho, Q,
                   num_ants, iterations, w_conf, num_agents>>

NextTwin ==
    \/ Next
    \/ Rerun

SpecTwin == InitTwin /\ [][NextTwin]_vars

(* --------------------------- the apps of src/app ---------------------- *)
\* antigravity_app.py: POST /api/select-point with the pixel p
FlaskSelectPoint ==
    /\ app = "flask"
    /\ \E p \in Picks :
          LET r == select_point(agent, stage, points,
                                nearest_free_black(UI_ENV, p[1], p[2]))
          IN  /\ agent' = r.agent
              /\ stage' = r.stage
              /\ points' = r.points
              /\ response' = <<"select_point", p, r.status>>
    /\ UNCHANGED <<planVars, app, routes, pending>>

\* antigravity_app.py: POST /api/optimize
FlaskOptimize ==
    /\ app = "flask"
    /\ IF ~points_ok(points)
       THEN /\ response' = <<"optimize", NIL, "400">>
            /\ UNCHANGED routes
       ELSE \E out \in run_ga_multi_streamlit :
                IF out = "raise"
                THEN /\ response' = <<"optimize", NIL, "500">>
                     /\ UNCHANGED routes
                ELSE /\ response' = <<"optimize", NIL, "200">>
                     /\ routes' = PATHS
    /\ UNCHANGED <<planVars, app, agent, stage, points, pending>>

\* antigravity_app.py: POST /api/reset
FlaskReset ==
    /\ app = "flask"
    /\ agent' = 0
    /\ stage' = 0
    /\ points' = [a \in 0..(N_AGENTS - 1) |-> <<>>]
    /\ routes' = NIL
    /\ response' = <<"reset", NIL, "200">>
    /\ UNCHANGED <<planVars, app, pending>>

\* streamlit_app.py: a click on the map inside it
StClick ==
    /\ app = "streamlit"
    /\ \E p \in Picks :
          /\ pending' = p
          /\ response' = <<"click", p, "">>
    /\ UNCHANGED <<planVars, app, agent, stage, points, routes>>

\* streamlit_app.py: the button "Confirmar punto"
StConfirm ==
    /\ app = "streamlit"
    /\ LET r == confirmar_punto(agent, stage, points, pending)
       IN  /\ agent' = r.agent
           /\ stage' = r.stage
           /\ points' = r.points
           /\ pending' = r.pending
           /\ response' = <<"confirmar", pending, r.status>>
    /\ UNCHANGED <<planVars, app, routes>>

\* streamlit_app.py: the button "Optimizar rutas"; an exception of the
\* optimizer is not caught
StOptimize ==
    /\ app = "streamlit"
    /\ IF ~points_ok(points)
       THEN /\ response' = <<"optimizar", NIL, "error">>
            /\ UNCHANGED routes
       ELSE \E out \in run_ga_multi_streamlit :
                IF out = "raise"
                THEN /\ response' = <<"optimizar", NIL, "exception">>
                     /\ UNCHANGED routes
                ELSE /\ response' = <<"optimizar", NIL, "rerun">>
                     /\ routes' = PATHS
    /\ UNCHANGED <<planVars, app, agent, stage, points, pending>>

\* streamlit_app.py: the button "Reset"
StReset ==
    /\ app = "streamlit"
    /\ agent' = 0
    /\ stage' = 0
    /\ points' = [a \in 0..(N_AGENTS - 1) |-> <<>>]
    /\ pending' = NIL
    /\ routes' = NIL
    /\ response' = <<"reset", NIL, "rerun">>
    /\ UNCHANGED <<planVars, app>>

\* the planner of ACO_runner.py is no part of the apps: one planner, never
\* run, stands for it
InitUI ==
    /\ InitRun({<< <<1, 2>>, 2, 1, 1>>})
    /\ env = ENV_SPLIT
    /\ starts = << <<0, 0>> >> /\ pickups = starts /\ drops = starts
    /\ app \in {"flask", "streamlit"}
    /\ InitSession
    /\ trace = TraceOff

NextUI ==
    \/ FlaskSelectPoint
    \/ FlaskOptimize
    \/ FlaskReset
    \/ StClick
    \/ StConfirm
    \/ StOptimize
    \/ StReset

SpecUI == InitUI /\ [][NextUI]_vars

(* ------------- build_route_single followed past the record ------------ *)
\* The while loops of build_route_single have no bound: SpecWalk follows
\* them beyond the MaxSteps entries the model records.  Past that point only
\* the position of the agent is followed (pc "leg1+", "leg2+"), the entries
\* of the route are no longer kept, and a route completed there ends the
\* behaviour at pc "beyond".
Target == IF pc \in {"leg1", "leg1+"} THEN pickups[i + 1] ELSE drops[i + 1]

StepBeyond ==
    /\ \/ pc \in {"leg1", "leg2"} /\ Len(ruta) >= MaxSteps
       \/ pc \in {"leg1+", "leg2+"}
    /\ curr # Target
    /\ curr' \in choose_next(pheromone, curr, t, ocupacion)
    /\ pc' = IF pc \in {"leg1", "leg1+"} THEN "leg1+" ELSE "leg2+"
    /\ UNCHANGED <<uiVars, trace, cfgVars, pheromone, runVars, solVars, ruta, t, leg1>>

\* the first loop ends: curr = mid
EndLeg1Beyond ==
    /\ pc = "leg1+"
    /\ curr = pickups[i + 1]
    /\ pc' = "leg2+"
    /\ UNCHANGED <<uiVars, trace, cfgVars, pheromone, runVars, solVars, routeVars>>

\* return ruta
ReturnBeyond ==
    /\ pc = "leg2+"
    /\ curr = drops[i + 1]
    /\ pc' = "beyond"
    /\ UNCHANGED <<uiVars, trace, cfgVars, pheromone, runVars, solVars, routeVars>>

InitWalk == Init /\ num_ants = 1 /\ iterations = 1

NextWalk ==
    \/ Next
    \/ StepBeyond
    \/ EndLeg1Beyond
    \/ ReturnBeyond

Walking == pc \in {"leg1", "leg2", "leg1+", "leg2+"}

Returned == pc \in {"done", "error", "beyond"}

Nodes == UNION {Cells(e) : e \in Envs}

\* a pass of a loop of build_route_single that moves the agent to its
\* neighbour v
MoveTo(v) ==
    /\ Walking
    /\ curr # Target
    /\ v \in Range(G[curr])
    /\ curr' = v

\* a step of run() that has not returned or raised: every one of them
\* changes the position in the code or the position of the agent
Running ==
    /\ ~Returned
    /\ pc' \in {"ant", "agent", "leg1", "leg2", "leg1+", "leg2+", "sort",
                "evap", "reinf", "incumb", "done", "error", "beyond"}
    /\ curr' \in Nodes \cup {NIL}

\* run() keeps executing until it returns or raises, and random.random() is
\* fair to every neighbour (each has a positive weight): a neighbour that
\* can be chosen again and again is chosen at some point
SpecWalk ==
    /\ InitWalk
    /\ [][NextWalk]_vars
    /\ WF_<<pc, curr>>(Running)
    /\ \A v \in Nodes : SF_curr(MoveTo(v))

(* ============================== claims ================================ *)
\* the node an agent stands on before the m-th entry of its route r
Before(k, r, m) == IF m = 1 THEN starts[k] ELSE r[m - 1][2]

\* the routes score_solution was last called with
Scored == candidatos[Len(candidatos)][2]

\* C1: in every route build_route_single returned, the first recorded node
\* is a neighbour in G of the agent's start and each later recorded node is
\* a neighbour in G of the node recorded just before it.
C1_MovesAdjacent ==
    \A k \in 1..Len(rutas) :
        \A m \in 1..Len(rutas[k]) :
            rutas[k][m][2] \in Range(G[Before(k, rutas[k], m)])

\* a returned route of three moves
C1_Witness ==
    \E k \in 1..Len(rutas) : Len(rutas[k]) = 3

\* C2: every returned route ends at the drop node and the entries its first
\* leg recorded end at the pickup node, for all start, pickup and drop
\* nodes.
C2_EndsAtTargets ==
    \A k \in 1..Len(rutas) :
        LET r == rutas[k]
        IN  /\ Len(r) > 0
            /\ r[Len(r)][2] = drops[k]
            /\ legs[k] > 0 => r[legs[k]][2] = pickups[k]

\* C3: in every returned route each entry's timestep is exactly 1 more than
\* the previous entry's, and the first entry of the second leg carries the
\* timestep after the last entry of the first leg.
C3_TimestepsContiguous ==
    \A k \in 1..Len(rutas) :
        LET r == rutas[k]
        IN  /\ \A m \in 2..Len(r) : r[m][1] = r[m - 1][1] + 1
            /\ (legs[k] > 0 /\ Len(r) > legs[k])
                   => r[legs[k] + 1][1] = r[legs[k]][1] + 1

\* a returned route with entries of both legs
C3_Witness ==
    \E k \in 1..Len(rutas) : legs[k] > 0 /\ Len(rutas[k]) > legs[k]

\* C4: in every returned route the pickup node appears, before the final
\* drop entry (at it when pickup and drop are the same node).
C4_PickupBeforeDrop ==
    \A k \in 1..Len(rutas) :
        LET r == rutas[k]
        IN  \E m \in 1..Len(r) :
                /\ r[m][2] = pickups[k]
                /\ pickups[k] # drops[k] => m < Len(r)

\* C5: the agent is at its start at timestep 0, so the node its m-th move
\* reaches carries timestep m in the route and in the occupancy ledger.
C5_MoveKAtTimestepK ==
    \A k \in 1..Len(rutas) :
        \A m \in 1..Len(rutas[k]) :
            /\ rutas[k][m][1] = m
            /\ <<m, rutas[k][m][2]>> \in ocupacion

\* the cost of every move of every agent, the move leaving the start included
FullDistance(rs) ==
    SumDist(Concat([k \in 1..Len(rs) |->
                       Pares(<<starts[k]>> \o Nodos(rs[k]))]))

\* C6: the total distance score_solution returns is the sum over the agents
\* of the cost of every move from the start node to the drop node.
C6_TotalDistanceAllMoves ==
    scored # NIL => scored[2] = FullDistance(Scored)

\* C7: score_solution returns total_dist + w_conf x (number of conflicts the
\* detector reports), then that total_dist, then that number of conflicts.
C7_PenalizedScore ==
    scored # NIL =>
        LET n == Cardinality(detect_conflicts(
                     [k \in 1..Len(Scored) |-> Nodos(Scored[k])]))
        IN  /\ scored[3] = n
            /\ scored[2] = SumDist(ParesDe(Scored))
            /\ scored[1] = scored[2] + w_conf * n
            /\ candidatos[Len(candidatos)][1] = scored[1]

\* a scored solution with a conflict and a positive distance
C7_Witness ==
    scored # NIL /\ scored[3] > 0 /\ scored[2] > 0

\* the directed edges the agents of rs traverse, start edges included
Traversed(rs) ==
    UNION {{<<Before(k, rs[k], m), rs[k][m][2]>> : m \in 1..Len(rs[k])} :
              k \in 1..Len(rs)}

\* C8: reinforce adds Q / (score + epsilon) to the trail of every edge an
\* agent of the solution traversed, the edge leaving its start included (at
\* least one deposit; an edge traversed more than once may get more), and
\* leaves every other trail as it was.
C8_ReinforceTraversed ==
    [][pc = "reinf" =>
          \A e \in Edges(G) :
              IF e \in Traversed(rutas_best)
              THEN RLe(RAdd(pheromone[e], Deposit(score_best)), pheromone'[e])
              ELSE pheromone'[e] = pheromone[e]]_vars

C10_EvaporateDecreases ==
    [][(pc = "evap" /\ RLt(ZERO, rho) /\ RLt(rho, ONE)) =>
          \A e \in Edges(G) :
              /\ e \in DOMAIN pheromone'
              /\ pheromone'[e] = RMul(pheromone[e], RSub(ONE, rho))
              /\ RLt(pheromone'[e], pheromone[e])]_vars

\* the second evaporation is done: an edge never reinforced holds
\* 0.01 (1 - rho)^2 and an edge reinforced in the first cycle is above 0.01
C10_Witness ==
    /\ pc = "reinf" /\ it = 2
    /\ \E e \in Edges(G) :
           pheromone[e] = RMul(TAU0, RPow(RSub(ONE, rho), 2))
    /\ \E e \in Edges(G) : RLt(TAU0, pheromone[e])

\* C11: run() returns the least penalized score among all the candidates
\* scored in all iterations, with routes that are one of the candidates of
\* that score; with one ant and one iteration that is the score of the one
\* solution built.
C11_ReturnsGlobalBest ==
    pc = "done" =>
        /\ hist # NIL
        /\ best_score = hist[1]
        /\ best_routes \in hist[2]
        /\ score_solution(best_routes)[1] = best_score

\* run() is over and the best of its last iteration was worse than the
\* incumbent it returns
C11_Witness ==
    pc = "done" /\ it = 3 /\ num_ants = 2 /\ best_score < score_best

\* C12: an agent whose start node is an isolated free cell is never handed
\* an empty route as if its route were complete: no route of a solution
\* built is the empty route of an agent whose start has no neighbours.
C12_IsolatedStartReported ==
    \A k \in 1..Len(rutas) : ~(G[starts[k]] = <<>> /\ rutas[k] = <<>>)

\* C13: the construction of every route comes to an end, by the route being
\* completed or by a report that there is no route: run() always gets past
\* the loops of build_route_single.
C13_ConstructionTerminates == <>Returned

BadConfig ==
    \/ RLe(rho, ZERO)
    \/ Q <= 0
    \/ num_ants <= 0
    \/ iterations <= 0

\* C14: with rho, Q, num_ants or iterations not positive, run() builds no
\* candidate and leaves the pheromone table as __init__ made it.
C14_BadConfigRejected ==
    BadConfig =>
        /\ pc \notin {"agent", "leg1", "leg2"}
        /\ hist = NIL
        /\ pheromone = [k \in Edges(G) |-> TAU0]

\* C15: a failure while one ant's solution is built does not end run(): the
\* other ants of the iteration are still built, so run() has failed only
\* once the last of the num_ants ants of an iteration has been tried.
C15_FailureDiscardsOneAnt == pc = "error" => ant + 1 = num_ants

\* the entries recorded so far in the routes of the solution being built
Recorded == UNION {Range(rutas[k]) : k \in 1..Len(rutas)} \cup Range(ruta)

Building == pc \in {"agent", "leg1", "leg2"}

\* C16: every call of build_solution_multi starts with an empty ledger, and
\* while a solution is built the ledger holds no entry of any other
\* solution, of this iteration or of an earlier one.
C16_FreshLedger ==
    /\ pc = "agent" /\ i = 0 => ocupacion = {}
    /\ Building => ocupacion \subseteq Recorded

\* the second ant of the second iteration starts its solution after the
\* first ant of the iteration recorded entries
C16_Witness ==
    /\ pc = "agent" /\ i = 0
    /\ it = 2 /\ ant = 1
    /\ candidatos[1][2][1] # <<>>

\* C17: while a solution is built the ledger is exactly the set of entries
\* recorded so far in its routes, an entry being marked in the step that
\* chooses it; the agents are routed in index order, the routes returned so
\* far being those of agents 0..i-1; no entry leaves the ledger.
C17_LedgerTracksRoutes ==
    [][/\ Building' =>
            /\ ocupacion' = Recorded'
            /\ i' = Len(rutas')
       /\ Len(ruta') > Len(ruta) => ruta'[Len(ruta')] \in ocupacion'
       /\ Building /\ Building' =>
            /\ ocupacion \subseteq ocupacion'
            /\ i' \in {i, i + 1}]_vars

\* the second agent is under way, both agents having recorded entries
C17_Witness ==
    /\ pc = "leg2" /\ i = 1
    /\ rutas[1] # <<>> /\ ruta # <<>>

\* C18: in an iteration the pheromone table changes only in its update,
\* which comes once, after all num_ants candidates are built: evaporation,
\* then the reinforcement with the iteration best, then the iteration ends.
\* No step of the construction of a candidate changes the table.
C18_UpdateOncePerIteration ==
    [][/\ pheromone' # pheromone =>
            /\ pc \in {"evap", "reinf"}
            /\ Len(candidatos) = num_ants
       /\ pc' = "evap" => pc = "sort" /\ Len(candidatos) = num_ants
       /\ pc = "evap" =>
            /\ pheromone' = evaporate(pheromone)
            /\ pc' = "reinf"
       /\ pc = "reinf" =>
            /\ pheromone' = reinforce(pheromone, rutas_best, score_best)
            /\ pc' = "incumb"
       /\ pc = "incumb" => it' = it + 1]_vars

\* the update of the second iteration, two candidates having been built
\* on a table the first update changed
C18_Witness ==
    /\ pc = "reinf" /\ it = 2 /\ num_ants = 2
    /\ \E k \in DOMAIN pheromone : pheromone[k] # TAU0

\* C19: at every choice of a next node, a neighbour v whose (timestep, v)
\* is in the ledger has PENAL times the weight it would have otherwise,
\* and with a positive trail that weight is positive and v can be
\* returned; so two agents of a solution can hold the same entry.
C19_OccupancyIsBias ==
    pc \in {"leg1", "leg2"} /\ curr # Target =>
        \A k \in 1..Len(G[curr]) :
            LET v == G[curr][k]
                val == Desirability(pheromone, curr, v, t, ocupacion)
            IN  <<t, v>> \in ocupacion =>
                    /\ val = RMul(PENAL,
                                  Desirability(pheromone, curr, v, t, {}))
                    /\ RLt(ZERO, PheromoneGet(pheromone, <<curr, v>>)) =>
                            /\ RLt(ZERO, val)
                            /\ v \in choose_next(pheromone, curr, t, ocupacion)

\* the second agent has just recorded an entry the first agent holds
C19_Witness ==
    /\ pc \in {"leg1", "leg2"} /\ i = 1
    /\ ruta # <<>>
    /\ ruta[Len(ruta)] \in Range(rutas[1])

\* the positions of list(G[curr]) whose cumulative weight reaches the draw
Reached(r, short) ==
    LET probs == Probs(Vals(pheromone, curr, t, ocupacion), short)
    IN  {k \in 1..Len(G[curr]) : RLe(r, RSum(probs, k))}

Choosing ==
    /\ pc \in {"leg1", "leg2"} /\ curr # Target
    /\ G[curr] # <<>>
    /\ LET vals == Vals(pheromone, curr, t, ocupacion)
       IN  RSum(vals, Len(vals)) # ZERO

\* C20: when the weights do not sum to zero, choose_next returns the first
\* neighbour, in the order of list(G[u]), whose cumulative normalised weight
\* is at least the draw, and the last neighbour when there is none; the
\* node returned is a neighbour of u.
C20_FirstReachingDraw ==
    Choosing =>
        LET can == choose_next(pheromone, curr, t, ocupacion)
        IN
        \A r \in Draws, short \in Shortfalls :
            LET v == choose_next_draw(pheromone, curr, t, ocupacion, r, short)
                hit == Reached(r, short)
            IN  /\ v \in Range(G[curr]) /\ v \in can
                /\ hit = {} => v = G[curr][Len(G[curr])]
                /\ hit # {} =>
                        \E k \in hit : /\ v = G[curr][k]
                                       /\ \A j \in hit : k <= j

\* a choice between two neighbours of unlike weight where one draw returns
\* the first, another the second as the first to reach it, and a third
\* passes every cumulative weight
C20_Witness ==
    /\ Choosing /\ Len(G[curr]) = 2
    /\ \E k \in 1..2 : <<t, G[curr][k]>> \in ocupacion
    /\ \E r \in Draws : Reached(r, ONE) = {1, 2}
    /\ \E r \in Draws : Reached(r, ONE) = {2}
    /\ \E r \in Draws : Reached(r, <<1, 2>>) = {}

\* a next node is about to be chosen among the neighbours of curr, whose
\* weights sum to zero
ZeroSum ==
    /\ pc \in {"leg1", "leg2"} /\ curr # Target
    /\ G[curr] # <<>>
    /\ LET vals == Vals(pheromone, curr, t, ocupacion)
       IN  RSum(vals, Len(vals)) = ZERO

\* C21: when u has a neighbour and the weights of its neighbours sum to
\* zero, choose_next returns a neighbour of u, any of them, and does not
\* raise.
C21_ZeroSumFallback ==
    ZeroSum =>
        /\ choose_next(pheromone, curr, t, ocupacion) = Range(G[curr])
        /\ choose_next(pheromone, curr, t, ocupacion) # {}

\* a choice between two neighbours over two edges of trail 0
C21_Witness ==
    /\ ZeroSum /\ Len(G[curr]) = 2
    /\ \A k \in 1..2 : pheromone[<<curr, G[curr][k]>>] = ZERO

\* C22: the solution reinforce is called with is one of the num_ants
\* candidates of the iteration, none of which has a lower score; the score
\* passed is its own; and the call changes the trail of no edge outside the
\* consecutive node pairs of that solution.
C22_ReinforceIterationBest ==
    [][pc = "reinf" =>
        /\ Len(candidatos) = num_ants
        /\ <<score_best, rutas_best>> \in Range(candidatos)
        /\ \A j \in 1..Len(candidatos) : score_best <= candidatos[j][1]
        /\ score_best = score_solution(rutas_best)[1]
        /\ \A e \in DOMAIN pheromone :
              pheromone'[e] # pheromone[e] => e \in Range(ParesDe(rutas_best))
      ]_vars

\* reinforce is called with the second of two candidates, the first having
\* a higher score and node pairs of its own
C22_Witness ==
    /\ pc = "reinf" /\ num_ants = 2
    /\ candidatos[2][1] < candidatos[1][1]
    /\ rutas_best = candidatos[2][2]
    /\ Range(ParesDe(candidatos[1][2])) \ Range(ParesDe(rutas_best)) # {}

\* what nearest_free_black finds for the point of a response
Snapped(resp) == nearest_free_black(UI_ENV, resp[2][1], resp[2][2])

\* the response of a request to take a point
Selecting(resp) ==
    /\ resp # NIL
    /\ resp[1] \in {"select_point", "confirmar"}
    /\ resp[2] # NIL

\* C23: a picked point for which nearest_free_black finds no free cell is
\* answered with an error (HTTP 400 by antigravity_app.py, the error message
\* by streamlit_app.py) and the agent, the stage and the stored points of
\* the session stay as they were.
C23_RejectedPointKeepsSession ==
    [][Selecting(response') /\ Snapped(response') = NIL =>
        /\ response'[3] = IF app = "flask" THEN "400" ELSE "error"
        /\ UNCHANGED <<agent, stage, points>>]_vars

\* a point on a wall far from any free pixel has been refused while the
\* second agent was at its pickup
C23_Witness ==
    /\ Selecting(response) /\ Snapped(response) = NIL
    /\ response[3] \in {"400", "error"}
    /\ agent = 1 /\ stage = 1

\* every point of agent a is stored
Complete(pts, a) == DOMAIN pts[a] = Range(STAGES)

\* C24: a point that is accepted is stored under the agent and the stage of
\* the session, all other stored points staying, and the selection moves on
\* start -> pickup -> drop and from the drop of an agent to the start of
\* the next; the stage stays in 0..2, the agent in 0..N_AGENTS-1, and all
\* agents below the agent of the session have their three points.
C24_SelectionAdvances ==
    [][/\ stage' \in 0..2
       /\ agent' \in 0..(N_AGENTS - 1)
       /\ \A a \in 0..(agent' - 1) : Complete(points', a)
       /\ Selecting(response') /\ response'[3] \in {"200", "rerun"} =>
            /\ points'[agent][STAGES[stage + 1]] = Snapped(response')
            /\ \A a \in 0..(N_AGENTS - 1) :
                  \A stg \in DOMAIN points'[a] :
                      <<a, stg>> # <<agent, STAGES[stage + 1]>> =>
                          /\ stg \in DOMAIN points[a]
                          /\ points'[a][stg] = points[a][stg]
            /\ stage < 2 => stage' = stage + 1 /\ agent' = agent
            /\ stage = 2 =>
                  /\ stage' = 0
                  /\ agent' = IF agent = N_AGENTS - 1 THEN agent
                              ELSE agent + 1]_vars

\* the drop of the last agent has been accepted
C24_Witness ==
    /\ Selecting(response) /\ response[3] \in {"200", "rerun"}
    /\ agent = N_AGENTS - 1 /\ stage = 0
    /\ \A a \in 0..(N_AGENTS - 1) : Complete(points, a)

\* the response of a request to optimize
Optimizing(resp) == resp # NIL /\ resp[1] \in {"optimize", "optimizar"}

\* C25: an optimize request made while some agent lacks a point is answered
\* with an error and leaves the stored routes as they are, the optimizer
\* not being run; so routes are stored only in a session where every agent
\* has its three points.
C25_OptimizeNeedsAllPoints ==
    [][/\ routes' # NIL => \A a \in 0..(N_AGENTS - 1) : Complete(points', a)
       /\ Optimizing(response')
             /\ (\E a \in 0..(N_AGENTS - 1) : ~Complete(points, a)) =>
            /\ response'[3] = IF app = "flask" THEN "400" ELSE "error"
            /\ routes' = routes]_vars

\* an optimize request has been refused, two agents having their points
C25_Witness ==
    /\ Optimizing(response) /\ response[3] \in {"400", "error"}
    /\ agent = 2
    /\ routes = NIL

\* C26: all through run() the keys of the pheromone table are the directed
\* edges of G that __init__ stored: no read of choose_next and no update of
\* evaporate or reinforce makes a key of a pair that is not an edge.
C26_KeysAreEdges == DOMAIN pheromone = Edges(G)

\* the table after the reinforcement of the second iteration, the best
\* solution having consecutive node pairs
C26_Witness ==
    /\ pc = "incumb" /\ it = 2
    /\ ParesDe(rutas_best) # <<>>

\* a next node is about to be chosen among the neighbours of curr
AtChoice ==
    /\ pc \in {"leg1", "leg2"} /\ curr # Target
    /\ G[curr] # <<>>

\* C27: whenever a next node is chosen, every entry the agent wrote itself
\* has an earlier timestep, so a neighbour found in the ledger was written
\* by an agent routed before in this solution; for the first agent no
\* neighbour is found there and the weights are those of an empty ledger.
C27_LookupHitsEarlierAgents ==
    AtChoice =>
        /\ \A k \in 1..Len(ruta) : ruta[k][1] < t
        /\ \A v \in Range(G[curr]) :
              <<t, v>> \in ocupacion =>
                  /\ <<t, v>> \notin Range(ruta)
                  /\ \E k \in 1..Len(rutas) : <<t, v>> \in Range(rutas[k])
        /\ i = 0 =>
              /\ \A v \in Range(G[curr]) : <<t, v>> \notin ocupacion
              /\ Vals(pheromone, curr, t, ocupacion)
                    = Vals(pheromone, curr, t, {})

\* the second agent, with entries of its own in the ledger, finds a
\* neighbour the first agent holds at this timestep
C27_Witness ==
    /\ AtChoice /\ i = 1 /\ ruta # <<>>
    /\ \E v \in Range(G[curr]) : <<t, v>> \in ocupacion

\* how many times the pair e occurs among the pairs ps
Times(ps, e) == Cardinality({j \in 1..Len(ps) : ps[j] = e})

\* C28: reinforce deposits once per traversal: an edge occurring k times
\* among the consecutive node pairs of the iteration-best routes, within a
\* route or across agents, gains exactly k * Q / (score + epsilon).
C28_DepositPerTraversal ==
    [][pc = "reinf" =>
        \A e \in DOMAIN pheromone :
            pheromone'[e] =
                RAdd(pheromone[e],
                     RMul(RInt(Times(ParesDe(rutas_best), e)),
                          Deposit(score_best)))
      ]_vars

\* reinforce has run on routes in which an edge occurs twice
C28_Witness ==
    /\ pc = "incumb"
    /\ \E e \in Edges(G) : Times(ParesDe(rutas_best), e) >= 2

\* C29: best_score never increases and the incumbent changes only at the
\* incumbent test, when the iteration-best score is strictly lower; on a
\* tie the earlier incumbent routes are kept; within an iteration the
\* iteration best is the first constructed candidate of least score.
C29_StrictImprovementOnly ==
    [][/\ pc # "incumb" => UNCHANGED <<best_score, best_routes>>
       /\ pc = "incumb" =>
            /\ best_score # INF =>
                  best_score' # INF /\ best_score' <= best_score
            /\ <<best_score', best_routes'>> # <<best_score, best_routes>> =>
                  /\ best_score = INF \/ score_best < best_score
                  /\ <<best_score', best_routes'>> = <<score_best, rutas_best>>
            /\ (best_score # INF /\ score_best = best_score) =>
                  best_routes' = best_routes
       /\ pc = "sort" =>
            \E k \in 1..Len(candidatos) :
                /\ <<score_best', rutas_best'>> = candidatos[k]
                /\ \A j \in 1..Len(candidatos) :
                      candidatos[k][1] <= candidatos[j][1]
                /\ \A j \in 1..(k - 1) : candidatos[j][1] > candidatos[k][1]
      ]_vars

\* the second iteration's best tied with the incumbent on other routes and
\* the incumbent was kept
C29_Witness ==
    /\ it = 3 /\ best_score # INF
    /\ score_best = best_score /\ rutas_best # best_routes

\* two candidates of one iteration tied and the first one was taken
C29_TieWitness ==
    /\ pc = "evap" /\ num_ants = 2
    /\ candidatos[1][1] = candidatos[2][1]
    /\ candidatos[1][2] # candidatos[2][2]
    /\ rutas_best = candidatos[1][2]

\* the second instance is about to choose a next node
Repeating == trace[1] = "B" /\ AtChoice

\* what an instance has produced: its candidates with their scores, its
\* pheromone table, the routes and the score run() returns, how run() ended
Produced == <<trace[4], pheromone, best_routes, best_score, pc>>

\* C30: two instances that differ only in w_dist and / or MIN_SEP, given
\* the same draws, choose among the same weights, construct the same
\* candidates with the same scores, end with the same pheromone table and
\* return the same routes and score.
C30_UnusedParameters ==
    trace[1] = "B" =>
        /\ Len(trace[4]) <= Len(trace[5][1])
        /\ \A j \in 1..Len(trace[4]) : trace[4][j] = trace[5][1][j]
        /\ Repeating =>
              /\ trace[3] < Len(trace[2])
              /\ trace[2][trace[3] + 1][1]
                    = Vals(pheromone, curr, t, ocupacion)
              /\ trace[2][trace[3] + 1][2]
                    \in choose_next(pheromone, curr, t, ocupacion)
        /\ pc \in {"done", "error"} => Produced = trace[5]

\* the second instance, given another w_dist and another MIN_SEP, has
\* finished a run of two iterations in which routes were reinforced
C30_Witness ==
    /\ trace[1] = "B" /\ pc = "done"
    /\ w_dist # DEFAULT_W_DIST /\ MIN_SEP # DEFAULT_MIN_SEP
    /\ num_agents = 2 /\ it = 3 /\ trace[3] > 0
    /\ best_score > 0

====
